---------------------------- MODULE Spec2Model ----------------------------
(***************************************************************************)
(* Model of the journal-entry ETL: the four field normalizers of           *)
(* solution/normalizers.py, and ETLPipeline.transform, ETLPipeline.load    *)
(* and ETLPipeline.run of solution/pipeline.py.                            *)
(*                                                                         *)
(* A Python str is a sequence of characters; a character is a one-letter   *)
(* TLA+ string, except "u0663", which stands for the single code point     *)
(* U+0663 ARABIC-INDIC DIGIT THREE (a decimal digit that is not ASCII).    *)
(* A Python value is a record tagged by its type: None, a str or an int.   *)
(***************************************************************************)
EXTENDS Integers, Sequences, FiniteSets, TLC

VARIABLES
    fn,                      \* the normalizer under call ("none" in the pipeline)
    arg,                     \* its argument, a Python value
    ret,                     \* its return value, Pending before the call returns
    applied,                 \* how many times the normalizer has been applied
    strftime_pads,           \* whether the C library's strftime pads %Y to 4 digits
    max_description_length,  \* config.processing.max_description_length
    total_records,           \* ETLPipeline.total_records
    valid_records,           \* ETLPipeline.valid_records
    skipped_records,         \* ETLPipeline.skipped_records
    calls,                   \* number of transform calls made on the pipeline
    raw_data,                \* the argument of the last transform call
    transformed,             \* the list the last transform call returned
    validate_xml,            \* config.output.validate_xml
    schema_path,             \* ETLPipeline.schema_path, None or a path
    schema_exists,           \* whether a file is at schema_path
    database,                \* the journal_entries table at db_path, or Unavailable
    pc,                      \* where ETLPipeline.run is
    log,                     \* the messages run has logged since it was called
    document,                \* the element tree load has built
    output_file,             \* what is stored at output_path
    error                    \* the exception run raised, "none" if none

vars == <<fn, arg, ret, applied, strftime_pads, max_description_length, total_records,
          valid_records, skipped_records, calls, raw_data, transformed,
          validate_xml, schema_path, schema_exists, database, pc, log, document,
          output_file, error>>

runVars == <<validate_xml, schema_path, schema_exists, database, pc, log,
             document, output_file, error>>

pipelineVars == <<max_description_length, total_records, valid_records,
                  skipped_records, calls, raw_data, transformed, runVars>>

-----------------------------------------------------------------------------
(* Python values *)

None == [t |-> "None"]
Str(s) == [t |-> "str", s |-> s]
IntV(n) == [t |-> "int", n |-> n]
Pending == [t |-> "pending"]

\* no table to read: db_path cannot be opened or has no journal_entries table
Unavailable == [t |-> "unavailable"]
\* no element tree yet
NoDocument == [t |-> "nodocument"]
\* no file at output_path
Absent == [t |-> "absent"]
\* a file at output_path that a failed write left incomplete
Truncated == [t |-> "truncated"]

IsStr(v) == v.t = "str"

\* Python truthiness of None, a str or an int: `not v` is its negation.
Truthy(v) ==
    CASE v.t = "None" -> FALSE
      [] v.t = "str"  -> v.s # <<>>
      [] v.t = "int"  -> v.n # 0
      [] OTHER        -> FALSE

-----------------------------------------------------------------------------
(* Characters *)

AsciiDigits == {"0", "1", "2", "3", "4", "5", "6", "7", "8", "9"}

\* The decimal digits of the alphabet: what \d of a str pattern matches.
UnicodeDigits == AsciiDigits \cup {"u0663"}

Whitespace == {" ", "\t", "\n"}

DigitVal(c) ==
    CASE c = "0" -> 0 [] c = "1" -> 1 [] c = "2" -> 2 [] c = "3" -> 3
      [] c = "4" -> 4 [] c = "5" -> 5 [] c = "6" -> 6 [] c = "7" -> 7
      [] c = "8" -> 8 [] c = "9" -> 9 [] c = "u0663" -> 3

DigitChar(d) ==
    CASE d = 0 -> "0" [] d = 1 -> "1" [] d = 2 -> "2" [] d = 3 -> "3"
      [] d = 4 -> "4" [] d = 5 -> "5" [] d = 6 -> "6" [] d = 7 -> "7"
      [] d = 8 -> "8" [] d = 9 -> "9"

\* str.lower() on the letters of the alphabet.
Lower(c) ==
    CASE c = "T" -> "t" [] c = "E" -> "e" [] c = "N" -> "n" [] c = "A" -> "a"
      [] c = "I" -> "i" [] c = "F" -> "f" [] c = "S" -> "s" [] c = "Y" -> "y"
      [] OTHER -> c

\* s[a:b] of Python, 0-based, for 0 <= a and b within or beyond the end.
Slice(s, a, b) ==
    LET e == IF b < Len(s) THEN b ELSE Len(s)
    IN  IF a >= e THEN <<>> ELSE SubSeq(s, a + 1, e)

RECURSIVE LStrip(_)
LStrip(s) ==
    IF s # <<>> /\ Head(s) \in Whitespace THEN LStrip(Tail(s)) ELSE s

RECURSIVE RStrip(_)
RStrip(s) ==
    IF s # <<>> /\ s[Len(s)] \in Whitespace
    THEN RStrip(SubSeq(s, 1, Len(s) - 1)) ELSE s

\* str.strip()
Strip(s) == RStrip(LStrip(s))

\* n copies of the character c
RECURSIVE Rep(_, _)
Rep(c, n) == IF n <= 0 THEN <<>> ELSE <<c>> \o Rep(c, n - 1)

\* int(s) for a non-empty run of decimal digits (Unicode digits by their value)
RECURSIVE DigitsToNat(_)
DigitsToNat(s) ==
    IF s = <<>> THEN 0
    ELSE 10 * DigitsToNat(SubSeq(s, 1, Len(s) - 1)) + DigitVal(s[Len(s)])

\* str(n) for n >= 0
RECURSIVE NatToDigits(_)
NatToDigits(n) ==
    IF n < 10 THEN <<DigitChar(n)>>
    ELSE NatToDigits(n \div 10) \o <<DigitChar(n % 10)>>

\* str(v): the textual form of a str or an int
PyStr(v) ==
    CASE v.t = "str" -> v.s
      [] v.t = "int" -> IF v.n < 0 THEN <<"-">> \o NatToDigits(-v.n)
                        ELSE NatToDigits(v.n)
      [] v.t = "None" -> <<"N", "o", "n", "e">>

-----------------------------------------------------------------------------
(* validate_account *)

AccountMinLen == 3
AccountMaxLen == 12

\* re.match(r'^\d{3,12}$', s): s is stripped, so `$` can only match at the end
AccountPattern(s) ==
    /\ Len(s) >= AccountMinLen
    /\ Len(s) <= AccountMaxLen
    /\ \A i \in 1..Len(s) : s[i] \in UnicodeDigits

validate_account(account_str) ==
    IF ~Truthy(account_str) \/ ~IsStr(account_str) THEN None
    ELSE LET s == Strip(account_str.s)
         IN  IF AccountPattern(s) THEN Str(s) ELSE None

-----------------------------------------------------------------------------
(* datetime.strptime, as far as normalize_date uses it *)

Digits19 == AsciiDigits \ {"0"}

\* _strptime.TimeRE: the regular expression of each directive, as its ordered
\* alternatives; an alternative is a sequence of character classes.
DirectiveAlts(d) ==
    CASE d = "%Y" -> << <<UnicodeDigits, UnicodeDigits, UnicodeDigits, UnicodeDigits>> >>
      [] d = "%m" -> << <<{"1"}, {"0", "1", "2"}>>, <<{"0"}, Digits19>>, <<Digits19>> >>
      [] d = "%d" -> << <<{"3"}, {"0", "1"}>>, <<{"1", "2"}, UnicodeDigits>>,
                        <<{"0"}, Digits19>>, <<Digits19>>, <<{" "}, Digits19>> >>
      [] d = "%H" -> << <<{"2"}, {"0", "1", "2", "3"}>>, <<{"0", "1"}, UnicodeDigits>>,
                        <<UnicodeDigits>> >>
      [] d = "%M" -> << <<{"0", "1", "2", "3", "4", "5"}, UnicodeDigits>>,
                        <<UnicodeDigits>> >>
      [] d = "%S" -> << <<{"6"}, {"0", "1"}>>,
                        <<{"0", "1", "2", "3", "4", "5"}, UnicodeDigits>>,
                        <<UnicodeDigits>> >>

Directives == {"%Y", "%m", "%d", "%H", "%M", "%S"}

NoMatch == [ok |-> FALSE]

\* Whether the alternative matches s right after its first p characters.
MatchAlt(alt, s, p) ==
    /\ p + Len(alt) <= Len(s)
    /\ \A k \in 1..Len(alt) : s[p + k] \in alt[k]

\* The length of the whitespace run of s after its first p characters.
RECURSIVE WsRun(_, _)
WsRun(s, p) ==
    IF p < Len(s) /\ s[p + 1] \in Whitespace THEN 1 + WsRun(s, p + 1) ELSE 0

\* re.match of the compiled format (IGNORECASE) from token i of the format and
\* position p of the string: the first match in the regular expression's
\* backtracking order, not anchored at the end.
RECURSIVE MatchFrom(_, _, _, _, _), TryAlts(_, _, _, _, _, _), TryWs(_, _, _, _, _, _)
MatchFrom(fmt, i, s, p, vals) ==
    IF i > Len(fmt) THEN [ok |-> TRUE, end |-> p, vals |-> vals]
    ELSE IF fmt[i] \in Directives THEN TryAlts(fmt, i, s, p, vals, 1)
    ELSE IF fmt[i] = " " THEN TryWs(fmt, i, s, p, vals, WsRun(s, p))
    ELSE IF p < Len(s) /\ Lower(s[p + 1]) = Lower(fmt[i])
         THEN MatchFrom(fmt, i + 1, s, p + 1, vals)
         ELSE NoMatch

TryAlts(fmt, i, s, p, vals, k) ==
    LET alts == DirectiveAlts(fmt[i])
    IN  IF k > Len(alts) THEN NoMatch
        ELSE IF MatchAlt(alts[k], s, p)
             THEN LET text == Slice(s, p, p + Len(alts[k]))
                      r == MatchFrom(fmt, i + 1, s, p + Len(alts[k]),
                                     [vals EXCEPT ![fmt[i]] = text])
                  IN  IF r.ok THEN r ELSE TryAlts(fmt, i, s, p, vals, k + 1)
             ELSE TryAlts(fmt, i, s, p, vals, k + 1)

\* \s+ : greedy, giving back one character at a time
TryWs(fmt, i, s, p, vals, n) ==
    IF n < 1 THEN NoMatch
    ELSE LET r == MatchFrom(fmt, i + 1, s, p + n, vals)
         IN  IF r.ok THEN r ELSE TryWs(fmt, i, s, p, vals, n - 1)

IsLeap(y) == y % 4 = 0 /\ (y % 100 # 0 \/ y % 400 = 0)

DaysInMonth(y, m) ==
    IF m = 2 THEN (IF IsLeap(y) THEN 29 ELSE 28)
    ELSE IF m \in {4, 6, 9, 11} THEN 30 ELSE 31

\* int() of a matched field; an absent field is 0 (the time of day) 
FieldVal(text) == DigitsToNat(LStrip(text))

\* datetime.strptime(s, fmt): the parsed date, or ok = FALSE for ValueError
\* (no match, unconverted data, or a field datetime() refuses).
Strptime(s, fmt) ==
    LET m == MatchFrom(fmt, 1, s, 0, [d \in Directives |-> <<>>])
    IN  IF ~m.ok THEN NoMatch
        ELSE IF m.end # Len(s) THEN NoMatch
        ELSE LET y == FieldVal(m.vals["%Y"])
                 mo == FieldVal(m.vals["%m"])
                 d == FieldVal(m.vals["%d"])
                 sec == FieldVal(m.vals["%S"])
             IN  IF y >= 1 /\ d <= DaysInMonth(y, mo) /\ sec <= 59
                 THEN [ok |-> TRUE, year |-> y, month |-> mo, day |-> d]
                 ELSE NoMatch

\* zero-padded to at least w digits
ZeroPad(digits, w) == Rep("0", w - Len(digits)) \o digits

\* parsed_date.strftime('%Y-%m-%d'): the C library pads %Y to four digits, or
\* (glibc) prints a year below 1000 unpadded.
Strftime(dt, pads) ==
    (IF pads THEN ZeroPad(NatToDigits(dt.year), 4) ELSE NatToDigits(dt.year))
    \o <<"-">> \o ZeroPad(NatToDigits(dt.month), 2)
    \o <<"-">> \o ZeroPad(NatToDigits(dt.day), 2)

-----------------------------------------------------------------------------
(* normalize_date *)

formats == <<
    <<"%Y", "-", "%m", "-", "%d">>,
    <<"%Y", "-", "%m", "-", "%d", "T", "%H", ":", "%M", ":", "%S">>,
    <<"%Y", "-", "%m", "-", "%d", " ", "%H", ":", "%M", ":", "%S">>,
    <<"%m", "/", "%d", "/", "%Y">>,
    <<"%d", "-", "%m", "-", "%Y">> >>

\* the loop over formats, from the k-th on: the first that parses wins
RECURSIVE TryFormats(_, _, _)
TryFormats(s, k, pads) ==
    IF k > Len(formats) THEN None
    ELSE LET dt == Strptime(s, formats[k])
         IN  IF dt.ok THEN Str(Strftime(dt, pads))
             ELSE TryFormats(s, k + 1, pads)

normalize_date(date_str, pads) ==
    IF ~Truthy(date_str) \/ ~IsStr(date_str) THEN None
    ELSE TryFormats(Strip(date_str.s), 1, pads)

-----------------------------------------------------------------------------
(* decimal.Decimal, as far as normalize_amount uses it: a number is its sign
   (0 or 1), its coefficient (a string of ASCII digits) and its exponent, as
   in the standard library's own representation *)

\* the default context: getcontext().prec and getcontext().Emax
ContextPrec == 28
ContextEmax == 999999

RECURSIVE RemoveChar(_, _)
RemoveChar(s, c) ==
    IF s = <<>> THEN <<>>
    ELSE IF Head(s) = c THEN RemoveChar(Tail(s), c)
    ELSE <<Head(s)>> \o RemoveChar(Tail(s), c)

\* str.replace(old, new) for single characters
ReplaceChar(s, old, new) == [i \in 1..Len(s) |-> IF s[i] = old THEN new ELSE s[i]]

\* the length of the run of decimal digits of s after its first p characters
RECURSIVE DigitRun(_, _)
DigitRun(s, p) ==
    IF p < Len(s) /\ s[p + 1] \in UnicodeDigits THEN 1 + DigitRun(s, p + 1) ELSE 0

RECURSIVE StripLeadingZeros(_)
StripLeadingZeros(s) ==
    IF s # <<>> /\ Head(s) = "0" THEN StripLeadingZeros(Tail(s)) ELSE s

\* str(int(digits)) on a string of decimal digits of any length
IntStr(digits) ==
    LET ascii == [i \in 1..Len(digits) |-> DigitChar(DigitVal(digits[i]))]
        z == StripLeadingZeros(ascii)
    IN  IF z = <<>> THEN <<"0">> ELSE z

\* whether s continues with the letters of word after its first p characters,
\* ignoring case
HasWord(s, p, word) ==
    /\ p + Len(word) <= Len(s)
    /\ \A k \in 1..Len(word) : Lower(s[p + k]) = word[k]

\* the rest of the numeric form once the int and frac groups are placed:
\* (E(?P<exp>[-+]?\d+))?\Z, then the coefficient str(int(intpart + fracpart))
\* and the exponent exp - len(fracpart)
ParseExponent(s, sign, p0, pInt, pFracStart, pFrac, hasE, pExpStart) ==
    LET expLen == IF hasE THEN DigitRun(s, pExpStart) ELSE 0
        pEnd == IF hasE THEN pExpStart + expLen ELSE pFrac
    IN  IF (hasE /\ expLen = 0) \/ pEnd # Len(s) THEN NoMatch
        ELSE [ok |-> TRUE, kind |-> "finite", sign |-> sign,
              int |-> IntStr(Slice(s, p0, pInt) \o Slice(s, pFracStart, pFrac)),
              exp |-> (IF hasE
                       THEN (IF s[pExpStart] = "-" THEN -1 ELSE 1)
                            * DigitsToNat(Slice(s, pExpStart, pEnd))
                       ELSE 0) - (pFrac - pFracStart)]

\* the numeric form after (?P<int>\d*)(\.(?P<frac>\d*))?
ParseFraction(s, sign, p0, pInt, pFracStart, pFrac) ==
    LET hasE == pFrac < Len(s) /\ Lower(s[pFrac + 1]) = "e"
        expSigned == hasE /\ pFrac + 1 < Len(s) /\ s[pFrac + 2] \in {"-", "+"}
    IN  ParseExponent(s, sign, p0, pInt, pFracStart, pFrac, hasE,
                      IF expSigned THEN pFrac + 2 ELSE pFrac + 1)

\* the numeric form after (?P<int>\d*), which ends before character pInt + 1
ParseNumber(s, sign, p0, pInt) ==
    IF pInt < Len(s) /\ s[pInt + 1] = "."
    THEN ParseFraction(s, sign, p0, pInt, pInt + 1, pInt + 1 + DigitRun(s, pInt + 1))
    ELSE ParseFraction(s, sign, p0, pInt, pInt, pInt)

\* (?P<signal>s)?NaN(?P<diag>\d*)\Z with NaN starting after pNan characters
ParseNaN(s, sign, signal, pNan) ==
    IF HasWord(s, pNan, <<"n", "a", "n">>) /\ pNan + 3 + DigitRun(s, pNan + 3) = Len(s)
    THEN [ok |-> TRUE, kind |-> IF signal THEN "snan" ELSE "nan", sign |-> sign,
          int |-> StripLeadingZeros(IntStr(Slice(s, pNan + 3, Len(s)))),
          exp |-> 0]
    ELSE NoMatch

\* decimal._parser after (?P<sign>[-+])?, which took p0 characters:
\* ((?=\d|\.\d) numeric form | Inf(inity)? | (?P<signal>s)?NaN(?P<diag>\d*))\Z
ParseUnsigned(s, sign, p0) ==
    IF \/ DigitRun(s, p0) > 0
       \/ (p0 < Len(s) /\ s[p0 + 1] = "." /\ DigitRun(s, p0 + 1) > 0)
    THEN ParseNumber(s, sign, p0, p0 + DigitRun(s, p0))
    ELSE IF \/ (HasWord(s, p0, <<"i", "n", "f">>) /\ p0 + 3 = Len(s))
            \/ (HasWord(s, p0, <<"i", "n", "f", "i", "n", "i", "t", "y">>)
                  /\ p0 + 8 = Len(s))
    THEN [ok |-> TRUE, kind |-> "inf", sign |-> sign, int |-> <<"0">>, exp |-> 0]
    ELSE IF p0 < Len(s) /\ Lower(s[p0 + 1]) = "s"
    THEN ParseNaN(s, sign, TRUE, p0 + 1)
    ELSE ParseNaN(s, sign, FALSE, p0)

\* decimal._parser on a string without surrounding whitespace or underscores
ParseSigned(s) ==
    IF s # <<>> /\ s[1] \in {"-", "+"}
    THEN ParseUnsigned(s, IF s[1] = "-" THEN 1 ELSE 0, 1)
    ELSE ParseUnsigned(s, 0, 0)

\* Decimal(value) for a str: decimal._parser on value.strip() without its
\* underscores; ok = FALSE is InvalidOperation (ConversionSyntax).
ParseDecimal(value) == ParseSigned(RemoveChar(Strip(value), "_"))

\* str(int(coeff) + 1) on a string of ASCII digits
RECURSIVE IncDigits(_)
IncDigits(s) ==
    IF s = <<>> THEN <<"1">>
    ELSE IF s[Len(s)] = "9" THEN IncDigits(SubSeq(s, 1, Len(s) - 1)) \o <<"0">>
    ELSE SubSeq(s, 1, Len(s) - 1) \o <<DigitChar(DigitVal(s[Len(s)]) + 1)>>

AllZeros(s, from) == \A i \in (from + 1)..Len(s) : s[i] = "0"

\* ROUND_HALF_EVEN in place of ROUND_HALF_UP: an exact tie goes to the even
\* neighbour
RoundHalfEven(int, digits) ==
    IF int[digits + 1] \in {"6", "7", "8", "9"} THEN 1
    ELSE IF int[digits + 1] = "5"
    THEN IF ~AllZeros(int, digits + 1) THEN 1
         ELSE IF digits > 0 /\ DigitVal(int[digits]) % 2 = 1 THEN 1 ELSE -1
    ELSE IF AllZeros(int, digits) THEN 0
    ELSE -1

\* Decimal._round_half_up: 1 to round the kept digits up, 0 when nothing is
\* lost, -1 to cut
RoundHalfUp(int, digits) ==
    IF int[digits + 1] \in {"5", "6", "7", "8", "9"} THEN 1
    ELSE IF AllZeros(int, digits) THEN 0
    ELSE -1

\* Decimal._rescale(exp, ROUND_HALF_UP) of a non-zero finite number
Rescale(d, exp) ==
    IF d.exp >= exp
    THEN [d EXCEPT !.int = d.int \o Rep("0", d.exp - exp), !.exp = exp]
    ELSE LET digits0 == Len(d.int) + d.exp - exp
             int == IF digits0 < 0 THEN <<"1">> ELSE d.int
             digits == IF digits0 < 0 THEN 0 ELSE digits0
             changed == RoundHalfUp(int, digits)
             kept == Slice(int, 0, digits)
             coeff == IF kept = <<>> THEN <<"0">> ELSE kept
         IN  [d EXCEPT !.int = IF changed = 1 THEN IncDigits(coeff) ELSE coeff,
                       !.exp = exp]

QuantizeExp == -2

\* amount.quantize(Decimal('0.01'), rounding=ROUND_HALF_UP) in the default
\* context; ok = FALSE is InvalidOperation.
Quantize(d) ==
    IF d.kind = "nan"
    THEN IF Len(d.int) > ContextPrec
         THEN [d EXCEPT !.int = Slice(d.int, Len(d.int) - ContextPrec, Len(d.int))]
         ELSE d
    ELSE IF d.kind # "finite" THEN NoMatch
    ELSE IF d.int = <<"0">> THEN [d EXCEPT !.exp = QuantizeExp]
    ELSE LET adjusted == d.exp + Len(d.int) - 1
         IN  IF adjusted > ContextEmax THEN NoMatch
             ELSE IF adjusted - QuantizeExp + 1 > ContextPrec THEN NoMatch
             ELSE LET ans == Rescale(d, QuantizeExp)
                  IN  IF Len(ans.int) > ContextPrec THEN NoMatch
                      ELSE [ans EXCEPT !.ok = TRUE]

\* a test for zero that misses negative zero
IsPositiveZero(d) == d.kind = "finite" /\ d.int = <<"0">> /\ d.sign = 0

\* rounded == 0
IsZero(d) == d.kind = "finite" /\ d.int = <<"0">>

\* f"{rounded:.2f}" for the result of Quantize
FormatF(d) ==
    LET minus == IF d.sign = 1 THEN <<"-">> ELSE <<>>
    IN  IF d.kind = "nan" THEN minus \o <<"N", "a", "N">> \o d.int
        ELSE LET dotplace == d.exp + Len(d.int)
                 intpart == IF dotplace <= 0 THEN <<"0">> ELSE Slice(d.int, 0, dotplace)
                 fracpart == IF dotplace < 0 THEN Rep("0", -dotplace) \o d.int
                             ELSE Slice(d.int, dotplace, Len(d.int))
             IN  minus \o intpart \o <<".">> \o fracpart

-----------------------------------------------------------------------------
(* normalize_amount *)

\* lines 74-78: "0.00" for a zero of either sign, else f"{rounded:.2f}"
FormatRounded(rounded) ==
    IF ~rounded.ok THEN None
    ELSE IF IsZero(rounded) THEN Str(<<"0", ".", "0", "0">>)
    ELSE Str(FormatF(rounded))

\* lines 70-71: the quantize step on the parsed amount
RoundAmount(amount) ==
    IF ~amount.ok THEN None ELSE FormatRounded(Quantize(amount))

normalize_amount(amount_str) ==
    IF ~Truthy(amount_str) \/ ~IsStr(amount_str) THEN None
    ELSE RoundAmount(ParseDecimal(ReplaceChar(Strip(amount_str.s), ",", ".")))

-----------------------------------------------------------------------------
(* clean_description *)

DescriptionLimit == 255

clean_description(desc_str) ==
    IF ~Truthy(desc_str) THEN Str(<<>>)
    ELSE LET s == Strip(PyStr(desc_str))
         IN  IF Len(s) > DescriptionLimit THEN Str(Slice(s, 0, DescriptionLimit))
             ELSE Str(s)

-----------------------------------------------------------------------------
(* The raw records and configurations the pipeline is run on *)

\* ProcessingConfig.max_description_length
DefaultMaxDescriptionLength == 255

\* the values of processing.max_description_length tried
MaxDescriptionLengths == {3, DefaultMaxDescriptionLength}

RecordPool == {
    [Date |-> Str(<<"2", "0", "2", "4", "-", "0", "1", "-", "0", "1">>),
     Account |-> Str(<<"1", "0", "1">>),
     Amount |-> Str(<<"1", "0", "0">>),
     Description |-> Str(<<" ", " ", "P", "a", "y">>)],
    [Date |-> Str(<<"1", "2", "/", "3", "1", "/", "2", "0", "2", "3">>),
     Account |-> Str(<<"0", "0", "3">>),
     Amount |-> Str(<<"-", "2", "5", ",", "5", "0">>)],
    [Date |-> Str(<<"2", "0", "2", "4", "-", "0", "2", "-", "3", "0">>),
     Account |-> Str(<<"5", "0", "5">>),
     Amount |-> Str(<<"1", "0", "0">>),
     Description |-> Str(<<"b", "a", "d", " ", "d", "a", "y">>)],
    [Date |-> Str(<<"2", "0", "2", "4", "-", "0", "1", "-", "0", "5">>),
     Account |-> Str(<<"1", "2">>),
     Amount |-> Str(<<"1", "0", "0">>),
     Description |-> None],
    [Date |-> Str(<<"2", "0", "2", "4", "-", "0", "1", "-", "0", "4">>),
     Account |-> Str(<<"6", "0", "6">>),
     Amount |-> Str(<<"N", "a", "N">>),
     Description |-> Str(<<>>)],
    [Date |-> Str(<<"0", "9", "9", "9", "-", "0", "1", "-", "0", "1">>),
     Account |-> Str(<<"7", "u0663", "7">>),
     Amount |-> Str(<<"-", "0", ".", "0", "0", "4">>),
     Description |-> IntV(12345)] }

\* Rows of the journal_entries table as extract returns them: every row has
\* the four columns, a NULL column is None. "u0001" stands for the control
\* character U+0001, which is not whitespace and not allowed in XML text.
DbRowPool == {
    [Date |-> Str(<<"2", "0", "2", "4", "-", "0", "1", "-", "0", "1">>),
     Account |-> Str(<<"1", "0", "1">>),
     Amount |-> Str(<<"1", "0", "0">>),
     Description |-> Str(<<" ", " ", "P", "a", "y">>)],
    [Date |-> Str(<<"1", "2", "/", "3", "1", "/", "2", "0", "2", "3">>),
     Account |-> Str(<<"0", "0", "3">>),
     Amount |-> Str(<<"-", "2", "5", ",", "5", "0">>),
     Description |-> None],
    [Date |-> Str(<<"2", "0", "2", "4", "-", "0", "2", "-", "3", "0">>),
     Account |-> Str(<<"5", "0", "5">>),
     Amount |-> Str(<<"1", "0", "0">>),
     Description |-> Str(<<"b", "a", "d", " ", "d", "a", "y">>)],
    [Date |-> Str(<<"2", "0", "2", "4", "-", "0", "1", "-", "0", "2">>),
     Account |-> Str(<<"2", "0", "2">>),
     Amount |-> Str(<<"7">>),
     Description |-> Str(<<"a", "u0001", "b">>)] }

-----------------------------------------------------------------------------
(* ETLPipeline.transform *)

\* record.get(key, default) of a dict
Get(record, key, default) ==
    IF key \in DOMAIN record THEN record[key] ELSE default

\* the body of the loop for one record, up to the acceptance test: the four
\* normalized fields
NormalizeRecord(record, maxlen, pads) ==
    LET normalized_date == normalize_date(Get(record, "Date", Str(<<>>)), pads)
        normalized_amount == normalize_amount(Get(record, "Amount", Str(<<>>)))
        validated_account == validate_account(Get(record, "Account", Str(<<>>)))
        desc == Get(record, "Description", None)
        cut == IF Truthy(desc) /\ Len(PyStr(desc)) > maxlen
               THEN Str(Slice(PyStr(desc), 0, maxlen))
               ELSE desc
    IN  [Date |-> normalized_date,
         Account |-> validated_account,
         Amount |-> normalized_amount,
         Description |-> clean_description(cut)]

\* an acceptance test that forgets the account
AcceptedWithoutAccount(n) == Truthy(n.Date) /\ Truthy(n.Amount)

\* if normalized_date and normalized_amount and validated_account
Accepted(n) == Truthy(n.Date) /\ Truthy(n.Amount) /\ Truthy(n.Account)


\* The loop body is a function of the record and the configuration alone, so
\* its result is computed once for every record of the pool.
NormalizedPool ==
    { <<record, maxlen, pads, NormalizeRecord(record, maxlen, pads)>>
      : record \in RecordPool \cup DbRowPool, maxlen \in MaxDescriptionLengths, pads \in BOOLEAN }

Normalized(record, maxlen, pads) ==
    (CHOOSE e \in NormalizedPool :
        e[1] = record /\ e[2] = maxlen /\ e[3] = pads)[4]

\* the loop with a record left out when an equal canonical record was already
\* kept: what happens to a record depends on the records before it
RECURSIVE TransformLoopDeduplicating(_, _, _, _, _)
TransformLoopDeduplicating(raw, i, maxlen, pads, acc) ==
    IF i > Len(raw) THEN acc
    ELSE LET n == Normalized(raw[i], maxlen, pads)
         IN  IF Accepted(n) /\ \A k \in 1..Len(acc.out) : acc.out[k] # n
             THEN TransformLoopDeduplicating(raw, i + 1, maxlen, pads,
                      [acc EXCEPT !.out = Append(acc.out, n),
                                  !.valid = acc.valid + 1])
             ELSE TransformLoopDeduplicating(raw, i + 1, maxlen, pads,
                      [acc EXCEPT !.skipped = acc.skipped + 1])

\* the loop with insert(0, ...) in place of append: the output is reversed
RECURSIVE TransformLoopPrepending(_, _, _, _, _)
TransformLoopPrepending(raw, i, maxlen, pads, acc) ==
    IF i > Len(raw) THEN acc
    ELSE LET n == Normalized(raw[i], maxlen, pads)
         IN  IF Accepted(n)
             THEN TransformLoopPrepending(raw, i + 1, maxlen, pads,
                      [acc EXCEPT !.out = <<n>> \o acc.out,
                                  !.valid = acc.valid + 1])
             ELSE TransformLoopPrepending(raw, i + 1, maxlen, pads,
                      [acc EXCEPT !.skipped = acc.skipped + 1])

\* the loop from the i-th record on; acc holds transformed_data and the two
\* counters the loop increments
RECURSIVE TransformLoop(_, _, _, _, _)
TransformLoop(raw, i, maxlen, pads, acc) ==
    IF i > Len(raw) THEN acc
    ELSE LET n == Normalized(raw[i], maxlen, pads)
         IN  IF Accepted(n)
             THEN TransformLoop(raw, i + 1, maxlen, pads,
                      [acc EXCEPT !.out = Append(acc.out, n),
                                  !.valid = acc.valid + 1])
             ELSE TransformLoop(raw, i + 1, maxlen, pads,
                      [acc EXCEPT !.skipped = acc.skipped + 1])

-----------------------------------------------------------------------------
(* The pipeline object after construction (ETLPipeline.__init__ with the
   default configuration) *)

\* run has not been called: the configuration is the default one and no
\* schema was given
RunIdle ==
    /\ validate_xml = TRUE
    /\ schema_path = None
    /\ schema_exists = FALSE
    /\ database = Unavailable
    /\ pc = "idle"
    /\ log = <<>>
    /\ document = NoDocument
    /\ output_file = Absent
    /\ error = "none"

PipelineIdle ==
    /\ RunIdle
    /\ max_description_length = DefaultMaxDescriptionLength
    /\ total_records = 0
    /\ valid_records = 0
    /\ skipped_records = 0
    /\ calls = 0
    /\ raw_data = <<>>
    /\ transformed = <<>>

-----------------------------------------------------------------------------
(* Inputs of the normalizers *)

\* the longest run of whitespace put before and after an input
MaxPad == 1

Padded(bodies) ==
    {Str(l \o b \o r) : l \in {Rep(" ", n) : n \in 0..MaxPad},
                        b \in bodies,
                        r \in {Rep(" ", n) : n \in 0..MaxPad}}

DateYearSet == {0, 999, 1900, 2000, 2023, 2024}
DateMonthSet == {0, 2, 4, 12, 13}
DateDaySet == {0, 1, 29, 30, 31, 32}

\* a month or day field, with or without its leading zero
Field2(n) == {NatToDigits(n), ZeroPad(NatToDigits(n), 2)}
Year4(y) == ZeroPad(NatToDigits(y), 4)

TimeSet == {
    <<"1", "4", ":", "3", "0", ":", "0", "0">>,
    <<"2", "5", ":", "0", "0", ":", "0", "0">>,
    <<"2", "3", ":", "5", "9", ":", "6", "0">>,
    <<"1", ":", "2", ":", "3">> }

TimeSeparators == {<<"T">>, <<"t">>, <<" ">>, <<" ", " ">>}

DateOnlyBodies ==
    UNION {
      UNION { { Year4(y) \o <<"-">> \o m \o <<"-">> \o d,
                m \o <<"/">> \o d \o <<"/">> \o Year4(y),
                d \o <<"-">> \o m \o <<"-">> \o Year4(y),
                Year4(y) \o <<"/">> \o m \o <<"/">> \o d }
              : m \in Field2(mo), d \in Field2(da) }
      : y \in DateYearSet, mo \in DateMonthSet, da \in DateDaySet }

DateTimeBodies ==
    { Year4(y) \o <<"-">> \o ZeroPad(NatToDigits(mo), 2) \o <<"-">>
        \o ZeroPad(NatToDigits(da), 2) \o sep \o tm
      : y \in DateYearSet, mo \in DateMonthSet, da \in DateDaySet,
        sep \in TimeSeparators, tm \in TimeSet }

OddDateBodies == {
    <<"i", "n", "v", "a", "l", "i", "d">>,
    <<"2", "0", "2", "u0663", "-", "0", "1", "-", "0", "1">>,
    <<"2", "0", "2", "4", "-", "0", "1", "-", " ", "5">>,
    <<"2", "0", "2", "4", "-", "0", "1", "-", "0", "1", "1">> }

DateInputs ==
    Padded(DateOnlyBodies \cup DateTimeBodies \cup OddDateBodies)
    \cup {None, Str(<<>>), IntV(20240101)}

\* the most digits before, and after, the decimal mark of a generated amount
MaxIntDigits == 2
MaxFracDigits == 3

\* all strings over the alphabet of at most n characters
RECURSIVE StringsUpTo(_, _)
StringsUpTo(alphabet, n) ==
    IF n = 0 THEN {<<>>}
    ELSE LET shorter == StringsUpTo(alphabet, n - 1)
         IN  shorter \cup {s \o <<c>> : s \in shorter, c \in alphabet}

AmountGridBodies ==
    { sign \o int \o mark \o frac
      : sign \in {<<>>, <<"-">>},
        int \in StringsUpTo({"0", "1", "9"}, MaxIntDigits),
        mark \in {<<".">>, <<",">>},
        frac \in StringsUpTo({"0", "4", "5", "9"}, MaxFracDigits) }

AmountWholeBodies ==
    { sign \o int
      : sign \in {<<>>, <<"-">>, <<"+">>},
        int \in StringsUpTo({"0", "1", "9"}, MaxIntDigits) }

OddAmountBodies == {
    <<"N", "a", "N">>, <<"n", "a", "n">>, <<"-", "N", "a", "N">>,
    <<"N", "a", "N", "0", "7">>, <<"s", "N", "a", "N">>,
    <<"I", "n", "f">>, <<"-", "I", "n", "f", "i", "n", "i", "t", "y">>,
    <<"i", "n", "v", "a", "l", "i", "d">>,
    <<"1", "2", ".", "3", "4", ".", "5", "6">>,
    <<"$", "1", "0", "0">>,
    <<"1", "0", "0", " ", "U", "S", "D">>,
    <<"1", "_", "0", "0", "0">>,
    <<"1", ",", "0", "0", "0", ".", "5", "0">>,
    <<"1", "e", "2">>, <<"1", "E", "-", "3">>, <<"5", "e", "+", "1">>,
    <<"-", "1", "5", "e", "-", "3">>,
    <<"1", "e">>, <<"e", "5">>, <<"9", "e", "2", "6">>,
    <<"u0663", ".", "5">>, <<"1", " ", "0">>,
    <<"1", "0", "0", ".", "5", "6", "5">>, <<"-", "1", "0", "0", ".", "5", "6", "5">>,
    <<"1", "0", "0", ".", "5", "6", "4">>, <<"-", "9", "9", "9", ".", "9", "9", "9">>,
    <<"0", "0", "1", "0", "0", ".", "5", "0">> }

AmountInputs ==
    {Str(b) : b \in AmountGridBodies}
    \cup Padded(AmountWholeBodies \cup OddAmountBodies)
    \cup {None, Str(<<>>), IntV(100)}

\* how far past a length limit the generated inputs go
Slack == 2

\* a run of n digits d, whole or with one character replaced
AccountBodies ==
    UNION { {Rep(d, n)} \cup
            { [Rep(d, n) EXCEPT ![k] = c]
              : k \in 1..n, c \in {"A", "-", ".", " ", "u0663"} }
          : d \in {"0", "7"}, n \in 0..(AccountMaxLen + Slack) }

AccountInputs == Padded(AccountBodies) \cup {None, IntV(123)}

DescriptionCoreLengths ==
    0..Slack \cup (DescriptionLimit - Slack)..(DescriptionLimit + Slack)

DescriptionTails == {<<>>, <<" ", "B">>, <<"\n", "B">>, <<" ", " ", "B">>}

DescriptionInputs ==
    { Str(l \o Rep("A", n) \o tail \o r)
      : l \in StringsUpTo(Whitespace, MaxPad), n \in DescriptionCoreLengths,
        tail \in DescriptionTails, r \in StringsUpTo(Whitespace, MaxPad) }
    \cup {None, IntV(0), IntV(123)}

-----------------------------------------------------------------------------
(* The normalizers called on their own *)

InitDate ==
    /\ fn = "normalize_date"
    /\ applied = 0
    /\ arg \in DateInputs
    /\ ret = Pending
    /\ strftime_pads \in BOOLEAN
    /\ PipelineIdle

CallNormalizeDate ==
    /\ fn = "normalize_date"
    /\ ret = Pending
    /\ ret' = normalize_date(arg, strftime_pads)
    /\ applied' = 1
    /\ UNCHANGED <<fn, arg, strftime_pads>>
    /\ UNCHANGED pipelineVars

NextDate == CallNormalizeDate

SpecDate == InitDate /\ [][NextDate]_vars

InitAmount ==
    /\ fn = "normalize_amount"
    /\ applied = 0
    /\ arg \in AmountInputs
    /\ ret = Pending
    /\ strftime_pads = TRUE
    /\ PipelineIdle

CallNormalizeAmount ==
    /\ fn = "normalize_amount"
    /\ ret = Pending
    /\ ret' = normalize_amount(arg)
    /\ applied' = 1
    /\ UNCHANGED <<fn, arg, strftime_pads>>
    /\ UNCHANGED pipelineVars

NextAmount == CallNormalizeAmount

SpecAmount == InitAmount /\ [][NextAmount]_vars

InitAccount ==
    /\ fn = "validate_account"
    /\ applied = 0
    /\ arg \in AccountInputs
    /\ ret = Pending
    /\ strftime_pads = TRUE
    /\ PipelineIdle

CallValidateAccount ==
    /\ fn = "validate_account"
    /\ ret = Pending
    /\ ret' = validate_account(arg)
    /\ applied' = 1
    /\ UNCHANGED <<fn, arg, strftime_pads>>
    /\ UNCHANGED pipelineVars

NextAccount == CallValidateAccount

SpecAccount == InitAccount /\ [][NextAccount]_vars

InitDescription ==
    /\ fn = "clean_description"
    /\ applied = 0
    /\ arg \in DescriptionInputs
    /\ ret = Pending
    /\ strftime_pads = TRUE
    /\ PipelineIdle

CallCleanDescription ==
    /\ fn = "clean_description"
    /\ ret = Pending
    /\ ret' = clean_description(arg)
    /\ applied' = 1
    /\ UNCHANGED <<fn, arg, strftime_pads>>
    /\ UNCHANGED pipelineVars

NextDescription == CallCleanDescription

SpecDescription == InitDescription /\ [][NextDescription]_vars

-----------------------------------------------------------------------------
(* A normalizer applied to its own output: f(x) is computed, and when it is a
   value (not None) f is called again on it *)

\* the call f(x) of the normalizer named f
Apply(f, x, pads) ==
    CASE f = "normalize_date" -> normalize_date(x, pads)
      [] f = "normalize_amount" -> normalize_amount(x)
      [] f = "validate_account" -> validate_account(x)
      [] f = "clean_description" -> clean_description(x)

InitIdempotent == InitDate \/ InitAmount \/ InitAccount \/ InitDescription

Reapply ==
    /\ applied = 1
    /\ ret # None
    /\ arg' = ret
    /\ ret' = Apply(fn, ret, strftime_pads)
    /\ applied' = 2
    /\ UNCHANGED <<fn, strftime_pads>>
    /\ UNCHANGED pipelineVars

NextIdempotent ==
    \/ CallNormalizeDate
    \/ CallNormalizeAmount
    \/ CallValidateAccount
    \/ CallCleanDescription
    \/ Reapply

SpecIdempotent == InitIdempotent /\ [][NextIdempotent]_vars

-----------------------------------------------------------------------------
(* The pipeline: transform called on one ETLPipeline object *)

\* the most records of one transform call, and the most calls on one object
MaxRecords == 2
MaxCalls == 2

RECURSIVE SeqsUpTo(_, _)
SeqsUpTo(S, n) ==
    IF n = 0 THEN {<<>>}
    ELSE LET shorter == SeqsUpTo(S, n - 1)
         IN  shorter \cup {Append(s, x) : s \in shorter, x \in S}

RawInputs == SeqsUpTo(RecordPool, MaxRecords)

Init ==
    /\ fn = "none"
    /\ arg = None
    /\ ret = None
    /\ applied = 0
    /\ strftime_pads \in BOOLEAN
    /\ max_description_length \in MaxDescriptionLengths
    /\ total_records = 0
    /\ valid_records = 0
    /\ skipped_records = 0
    /\ calls = 0
    /\ raw_data = <<>>
    /\ transformed = <<>>
    /\ RunIdle

\* the body of transform: the counters, the returned list and the call count
TransformCall(raw) ==
    /\ calls < MaxCalls
    /\ LET r == TransformLoop(raw, 1, max_description_length, strftime_pads,
                    [out |-> <<>>, valid |-> valid_records,
                     skipped |-> skipped_records])
       IN  /\ total_records' = Len(raw)
           /\ valid_records' = r.valid
           /\ skipped_records' = r.skipped
           /\ transformed' = r.out
    /\ raw_data' = raw
    /\ calls' = calls + 1

Transform(raw) ==
    /\ TransformCall(raw)
    /\ UNCHANGED <<fn, arg, ret, applied, strftime_pads, max_description_length>>
    /\ UNCHANGED runVars

Next == \E raw \in RawInputs : Transform(raw)

Spec == Init /\ [][Next]_vars

-----------------------------------------------------------------------------
(* ETLPipeline.load: the element tree *)

\* an element with a text and no children (etree.SubElement, .text = ...)
TextElement(tag, text) == [tag |-> tag, text |-> text]

\* the characters lxml refuses in a text ("All strings must be XML
\* compatible"): control characters other than tab, newline, carriage return
ControlChars == {"u0001"}

XmlCompatible(s) == \A i \in 1..Len(s) : s[i] \notin ControlChars

\* whether every text load assigns for this record is accepted
RecordXmlCompatible(record) ==
    /\ XmlCompatible(record.Date.s)
    /\ XmlCompatible(record.Account.s)
    /\ XmlCompatible(record.Amount.s)
    /\ (Truthy(record.Description) => XmlCompatible(record.Description.s))

\* an Entry with a Description child for every record, empty text included
BuildEntryAlwaysDescription(record) ==
    [tag |-> "Entry",
     children |-> <<TextElement("Date", record.Date.s),
                    TextElement("Account", record.Account.s),
                    TextElement("Amount", record.Amount.s),
                    TextElement("Description", record.Description.s)>>]

\* the Entry element of one record
BuildEntry(record) ==
    [tag |-> "Entry",
     children |-> <<TextElement("Date", record.Date.s),
                    TextElement("Account", record.Account.s),
                    TextElement("Amount", record.Amount.s)>>
                  \o (IF Truthy(record.Description)
                      THEN <<TextElement("Description", record.Description.s)>>
                      ELSE <<>>)]

\* the root element: Journal, with the schema location attribute when a
\* schema path was given, and one Entry per record
BuildDocument(data) ==
    [tag |-> "Journal",
     noNamespaceSchemaLocation |-> Truthy(schema_path),
     children |-> [k \in 1..Len(data) |-> BuildEntry(data[k])]]

\* a validation that ignores config.output.validate_xml
ShouldValidateIgnoringConfig == Truthy(schema_path) /\ schema_exists

\* self.config.output.validate_xml and self.schema_path and
\* Path(self.schema_path).exists()
ShouldValidate == validate_xml /\ Truthy(schema_path) /\ schema_exists

\* what etree.parse, etree.XMLSchema and schema.assertValid can do with the
\* schema file and the tree: pass, or raise one of these
ValidationOutcomes == {"valid", "XMLSyntaxError", "XMLSchemaParseError", "DocumentInvalid"}

-----------------------------------------------------------------------------
(* ETLPipeline.run on one pipeline object: extract, transform, load *)

normalizerVars == <<fn, arg, ret, applied, strftime_pads>>
configVars == <<max_description_length, validate_xml, schema_path, schema_exists>>
counterVars == <<total_records, valid_records, skipped_records, calls>>

\* a schema path as main passes it
SchemaFile == Str(<<"s", "c", "h", "e", "m", "a", ".", "x", "s", "d">>)

\* a database whose journal_entries table holds these rows
Table(rows) == [t |-> "table", rows |-> rows]

\* what the database can be when run is called
Databases ==
    {Unavailable}
    \cup {Table(rows) : rows \in {<<>>} \cup {<<r>> : r \in DbRowPool}
                                 \cup {<<r, s>> : r, s \in DbRowPool}}

InitRun ==
    /\ fn = "none"
    /\ arg = None
    /\ ret = None
    /\ applied = 0
    /\ strftime_pads = TRUE
    /\ max_description_length = DefaultMaxDescriptionLength
    /\ total_records = 0
    /\ valid_records = 0
    /\ skipped_records = 0
    /\ calls = 0
    /\ raw_data = <<>>
    /\ transformed = <<>>
    /\ validate_xml \in BOOLEAN
    /\ schema_path \in {None, SchemaFile}
    /\ schema_exists \in (IF schema_path = None THEN {FALSE} ELSE BOOLEAN)
    /\ database = Unavailable
    /\ pc = "idle"
    /\ log = <<>>
    /\ document = NoDocument
    /\ output_file = Absent
    /\ error = "none"

\* run is called; db is the table at that time
RunStart(db) ==
    /\ pc \in {"idle", "done", "failed"}
    /\ calls < MaxCalls
    /\ database' = db
    /\ pc' = "extract"
    /\ log' = <<"Starting ETL pipeline">>
    /\ error' = "none"
    /\ raw_data' = <<>>
    /\ transformed' = <<>>
    /\ document' = NoDocument
    /\ UNCHANGED <<normalizerVars, configVars, counterVars, output_file>>

\* extract returns the rows
ExtractOk ==
    /\ pc = "extract"
    /\ database # Unavailable
    /\ raw_data' = database.rows
    /\ pc' = "transform"
    /\ log' = log \o <<"Connecting to database", "Extracted records">>
    /\ UNCHANGED <<normalizerVars, configVars, counterVars, output_file,
                   database, transformed, document, error>>

\* extract with every failure turned into an empty result
ExtractFailsSwallowed ==
    /\ pc = "extract"
    /\ database = Unavailable
    /\ raw_data' = <<>>
    /\ pc' = "transform"
    /\ log' = log \o <<"Connecting to database">>
    /\ UNCHANGED <<normalizerVars, configVars, counterVars, output_file,
                   database, transformed, document, error>>

\* extract raises sqlite3.Error, which run raises again
ExtractFails ==
    /\ pc = "extract"
    /\ database = Unavailable
    /\ pc' = "failed"
    /\ error' = "sqlite3.Error"
    /\ log' = log \o <<"Connecting to database">>
    /\ UNCHANGED <<normalizerVars, configVars, counterVars, output_file,
                   database, raw_data, transformed, document>>

\* transformed_data = self.transform(raw_data)
RunTransform ==
    /\ pc = "transform"
    /\ TransformCall(raw_data)
    /\ pc' = "load"
    /\ log' = log \o <<"Starting data transformation", "Transformation complete">>
    /\ UNCHANGED <<normalizerVars, configVars, output_file, database, document, error>>

\* load, up to the finished tree
LoadBuild ==
    /\ pc = "load"
    /\ \A k \in 1..Len(transformed) : RecordXmlCompatible(transformed[k])
    /\ document' = BuildDocument(transformed)
    /\ pc' = "validate"
    /\ log' = log \o <<"Generating XML output">>
    /\ UNCHANGED <<normalizerVars, configVars, counterVars, output_file, database,
                   raw_data, transformed, error>>

\* load raises ValueError at the first text lxml refuses
LoadBuildFails ==
    /\ pc = "load"
    /\ \E k \in 1..Len(transformed) : ~RecordXmlCompatible(transformed[k])
    /\ pc' = "failed"
    /\ error' = "ValueError"
    /\ log' = log \o <<"Generating XML output">>
    /\ UNCHANGED <<normalizerVars, configVars, counterVars, output_file, database,
                   raw_data, transformed, document>>

\* the validation block is not entered
LoadValidateSkipped ==
    /\ pc = "validate"
    /\ ~ShouldValidate
    /\ pc' = "write"
    /\ UNCHANGED <<normalizerVars, configVars, counterVars, output_file, database,
                   raw_data, transformed, document, log, error>>

\* the validation block, passing or raising
LoadValidate(outcome) ==
    /\ pc = "validate"
    /\ ShouldValidate
    /\ IF outcome = "valid"
       THEN /\ pc' = "write"
            /\ log' = log \o <<"Validating XML against schema",
                                "XML validation successful">>
            /\ error' = error
       ELSE /\ pc' = "failed"
            /\ log' = log \o <<"Validating XML against schema">>
            /\ error' = outcome
    /\ UNCHANGED <<normalizerVars, configVars, counterVars, output_file, database,
                   raw_data, transformed, document>>

\* tree.write succeeds, load returns and run logs the statistics
LoadWrite ==
    /\ pc = "write"
    /\ output_file' = document
    /\ pc' = "done"
    /\ log' = log \o <<"XML file written", "ETL Pipeline completed successfully">>
    /\ UNCHANGED <<normalizerVars, configVars, counterVars, database,
                   raw_data, transformed, document, error>>

\* tree.write raises IOError: the file could not be opened, or not be
\* written to the end
LoadWriteFails ==
    /\ pc = "write"
    /\ output_file' \in {output_file, Truncated}
    /\ pc' = "failed"
    /\ error' = "IOError"
    /\ UNCHANGED <<normalizerVars, configVars, counterVars, database,
                   raw_data, transformed, document, log>>

NextRun ==
    \/ \E db \in Databases : RunStart(db)
    \/ ExtractOk
    \/ ExtractFails
    \/ RunTransform
    \/ LoadBuild
    \/ LoadBuildFails
    \/ LoadValidateSkipped
    \/ \E outcome \in ValidationOutcomes : LoadValidate(outcome)
    \/ LoadWrite
    \/ LoadWriteFails

SpecRun == InitRun /\ [][NextRun]_vars

-----------------------------------------------------------------------------
(* Formats of a canonical record, as the specification words them *)

AllAsciiDigits(s, positions) == \A i \in positions : s[i] \in AsciiDigits

\* YYYY-MM-DD of a valid calendar date
IsIsoDate(s) ==
    /\ Len(s) = 10
    /\ AllAsciiDigits(s, {1, 2, 3, 4, 6, 7, 9, 10})
    /\ s[5] = "-" /\ s[8] = "-"
    /\ LET y == DigitsToNat(SubSeq(s, 1, 4))
           m == DigitsToNat(SubSeq(s, 6, 7))
           d == DigitsToNat(SubSeq(s, 9, 10))
       IN  m \in 1..12 /\ d >= 1 /\ d <= DaysInMonth(y, m)

\* 3 to 12 ASCII digits
IsAccountNumber(s) ==
    Len(s) >= 3 /\ Len(s) <= 12 /\ AllAsciiDigits(s, 1..Len(s))

\* an optional minus, digits, a decimal point and exactly two digits
IsFixedPoint(s) ==
    LET body == IF s # <<>> /\ s[1] = "-" THEN Tail(s) ELSE s
    IN  /\ Len(body) >= 4
        /\ body[Len(body) - 2] = "."
        /\ AllAsciiDigits(body, 1..Len(body) \ {Len(body) - 2})

-----------------------------------------------------------------------------
(* Claims about ETLPipeline.transform, checked under Spec *)

\* the indices of the records whose date, amount and account normalizations
\* all returned a value
AcceptedIdx ==
    { i \in 1..Len(raw_data) :
        LET n == Normalized(raw_data[i], max_description_length, strftime_pads)
        IN  n.Date # None /\ n.Amount # None /\ n.Account # None }

CanonicalFields == {"Date", "Account", "Amount", "Description"}

\* C1: transform retains a raw record if and only if normalize_date,
\* normalize_amount and validate_account all return a value for it: as many
\* records are retained as pass that rule, the retained (Date, Account, Amount)
\* values are exactly those of the passing records, whatever the Description
\* (absent, empty, text), and every retained record carries all four fields.
C1_AcceptanceRule ==
    calls > 0 =>
        /\ Len(transformed) = Cardinality(AcceptedIdx)
        /\ { <<transformed[k].Date, transformed[k].Account, transformed[k].Amount>>
               : k \in 1..Len(transformed) }
           = { LET n == Normalized(raw_data[i], max_description_length, strftime_pads)
               IN  <<n.Date, n.Account, n.Amount>> : i \in AcceptedIdx }
        /\ \A k \in 1..Len(transformed) :
              /\ DOMAIN transformed[k] = CanonicalFields
              /\ \A f \in CanonicalFields : IsStr(transformed[k][f])

\* C1 witness: one call that retained a record without a Description key and
\* dropped another record.
C1_Witness ==
    /\ calls > 0
    /\ Len(raw_data) = 2
    /\ Len(transformed) = 1
    /\ \E i \in AcceptedIdx : "Description" \notin DOMAIN raw_data[i]

\* C2: after every transform call the counters describe that call:
\* total_records is the number of input records, valid_records the number
\* returned, skipped_records the number dropped, and total = valid + skipped.
C2_CountersDescribeCall ==
    calls > 0 =>
        /\ total_records = Len(raw_data)
        /\ valid_records = Len(transformed)
        /\ skipped_records = Len(raw_data) - Len(transformed)
        /\ total_records = valid_records + skipped_records

\* the k-th accepted index, in input order
KthAccepted(k) ==
    CHOOSE i \in AcceptedIdx : Cardinality({j \in AcceptedIdx : j <= i}) = k

\* C3: the returned sequence is the input filtered by the acceptance rule in
\* input order: its k-th record is the canonical record of the k-th accepted
\* input record, so nothing is duplicated or reordered.
C3_OrderPreserved ==
    calls > 0 =>
        /\ Len(transformed) = Cardinality(AcceptedIdx)
        /\ \A k \in 1..Len(transformed) :
              transformed[k] =
                  Normalized(raw_data[KthAccepted(k)], max_description_length,
                             strftime_pads)

\* C3 witness: a call that returned two different canonical records.
C3_Witness ==
    /\ calls > 0
    /\ Len(transformed) = 2
    /\ transformed[1] # transformed[2]

\* C4: every returned record has a YYYY-MM-DD Date of a valid calendar date, an
\* Account of 3 to 12 ASCII digits, an Amount of an optional minus, digits, a
\* point and two digits, and a Description no longer than
\* processing.max_description_length.
C4_CanonicalFormat ==
    \A k \in 1..Len(transformed) :
        /\ IsStr(transformed[k].Date) /\ IsIsoDate(transformed[k].Date.s)
        /\ IsStr(transformed[k].Account) /\ IsAccountNumber(transformed[k].Account.s)
        /\ IsStr(transformed[k].Amount) /\ IsFixedPoint(transformed[k].Amount.s)
        /\ IsStr(transformed[k].Description)
        /\ Len(transformed[k].Description.s) <= max_description_length

-----------------------------------------------------------------------------
(* Claims about normalize_date, checked under SpecDate *)

IsoShape(s) ==
    /\ Len(s) >= 10
    /\ AllAsciiDigits(s, {1, 2, 3, 4, 6, 7, 9, 10})
    /\ s[5] = "-" /\ s[8] = "-"

\* HH:MM:SS after the separator at position 11
TimeShape(s, separator) ==
    /\ Len(s) = 19
    /\ s[11] = separator
    /\ AllAsciiDigits(s, {12, 13, 15, 16, 18, 19})
    /\ s[14] = ":" /\ s[17] = ":"

\* MM/DD/YYYY and DD-MM-YYYY, by their separator
DayMonthShape(s, separator) ==
    /\ Len(s) = 10
    /\ AllAsciiDigits(s, {1, 2, 4, 5, 7, 8, 9, 10})
    /\ s[3] = separator /\ s[6] = separator

\* year, month and day fields as written: a date if they name a calendar day
DateOf(y, m, d) ==
    IF /\ DigitsToNat(m) \in 1..12
       /\ DigitsToNat(d) >= 1
       /\ DigitsToNat(d) <= DaysInMonth(DigitsToNat(y), DigitsToNat(m))
    THEN Str(y \o <<"-">> \o m \o <<"-">> \o d)
    ELSE None

\* the value the five patterns give a trimmed input
PatternDate(s) ==
    IF IsoShape(s) /\ (Len(s) = 10 \/ TimeShape(s, "T") \/ TimeShape(s, " "))
    THEN DateOf(SubSeq(s, 1, 4), SubSeq(s, 6, 7), SubSeq(s, 9, 10))
    ELSE IF DayMonthShape(s, "/")
    THEN DateOf(SubSeq(s, 7, 10), SubSeq(s, 1, 2), SubSeq(s, 4, 5))
    ELSE IF DayMonthShape(s, "-")
    THEN DateOf(SubSeq(s, 7, 10), SubSeq(s, 4, 5), SubSeq(s, 1, 2))
    ELSE None

\* C5: normalize_date returns a value if and only if the trimmed input matches
\* one of the five patterns YYYY-MM-DD, YYYY-MM-DDTHH:MM:SS,
\* YYYY-MM-DD HH:MM:SS, MM/DD/YYYY, DD-MM-YYYY and names a valid calendar date
\* (leap years included); the value is that date as YYYY-MM-DD; every other
\* input yields None.
C5_FivePatterns ==
    (fn = "normalize_date" /\ ret # Pending) =>
        ret = IF IsStr(arg) THEN PatternDate(Strip(arg.s)) ELSE None

-----------------------------------------------------------------------------
(* Claims about normalize_amount, checked under SpecAmount *)

RECURSIVE Pow10(_)
Pow10(k) == IF k <= 0 THEN 1 ELSE 10 * Pow10(k - 1)

\* the decimal number the call was given, once it returned a value
AmountGiven == ParseDecimal(ReplaceChar(Strip(arg.s), ",", "."))

\* the call returned a value for an input that denotes a finite number
FiniteAccepted ==
    /\ fn = "normalize_amount"
    /\ ret # Pending
    /\ ret # None
    /\ IsStr(arg)
    /\ AmountGiven.kind = "finite"

\* |c * 10^e| in hundredths, an exact tie going away from zero
HalfUpCents(c, e) ==
    IF e >= -2 THEN c * Pow10(e + 2)
    ELSE LET unit == Pow10(-2 - e)
         IN  (c \div unit) + (IF 2 * (c % unit) >= unit THEN 1 ELSE 0)

ExpectedCents == HalfUpCents(DigitsToNat(AmountGiven.int), AmountGiven.exp)

\* the hundredths a fixed-point string denotes, with its sign
CentsOf(s) ==
    IF s[1] = "-" THEN -DigitsToNat(RemoveChar(Tail(s), "."))
    ELSE DigitsToNat(RemoveChar(s, "."))

\* C6: for every accepted decimal input the result is the value rounded to two
\* fractional digits, exact ties going away from zero for positive and
\* negative values alike (100.565 -> 100.57, -100.565 -> -100.57,
\* -999.999 -> -1000.00), computed exactly.
C6_RoundHalfUp ==
    FiniteAccepted =>
        /\ IsFixedPoint(ret.s)
        /\ CentsOf(ret.s) = (IF AmountGiven.sign = 1 THEN -1 ELSE 1) * ExpectedCents

\* C6 witness: a negative exact tie whose kept part is even, which half-to-even
\* rounding would round the other way, was rounded.
C6_Witness ==
    /\ FiniteAccepted
    /\ AmountGiven.sign = 1
    /\ AmountGiven.exp = -3
    /\ DigitsToNat(AmountGiven.int) % 10 = 5
    /\ (DigitsToNat(AmountGiven.int) \div 10) % 2 = 0
    /\ DigitsToNat(AmountGiven.int) > 5

\* a single plain numeric literal: an optional sign and ASCII digits with at
\* most one decimal point
IsPlainLiteral(s) ==
    LET body == IF s # <<>> /\ s[1] \in {"-", "+"} THEN Tail(s) ELSE s
    IN  /\ \A i \in 1..Len(body) : body[i] \in AsciiDigits \cup {"."}
        /\ \E i \in 1..Len(body) : body[i] \in AsciiDigits
        /\ Cardinality({i \in 1..Len(body) : body[i] = "."}) <= 1

\* C7: normalize_amount returns None for every input that, trimmed and with
\* commas replaced by periods, is not a single plain numeric literal (a letter,
\* a currency symbol, a second decimal point, an embedded separator), and for
\* empty and null input.
C7_RejectsNonLiterals ==
    (fn = "normalize_amount" /\ ret # Pending) =>
        ((~IsStr(arg) \/ ~IsPlainLiteral(ReplaceChar(Strip(arg.s), ",", ".")))
            => ret = None)

ZeroResult == <<"0", ".", "0", "0">>

\* C8: an accepted input that rounds to magnitude zero gives exactly "0.00",
\* never "-0.00", and a negative result that is not zero keeps its minus.
C8_ZeroCanonical ==
    FiniteAccepted =>
        /\ ExpectedCents = 0 => ret.s = ZeroResult
        /\ ret.s # <<"-">> \o ZeroResult
        /\ (AmountGiven.sign = 1 /\ ExpectedCents # 0) => ret.s[1] = "-"

\* C8 witness: a negative input that is not zero and rounds to zero returned
\* "0.00".
C8_Witness ==
    /\ FiniteAccepted
    /\ AmountGiven.sign = 1
    /\ AmountGiven.int # <<"0">>
    /\ ExpectedCents = 0
    /\ ret.s = ZeroResult

-----------------------------------------------------------------------------
(* Claims about validate_account, checked under SpecAccount *)

\* C9: validate_account returns the trimmed input, unchanged, if and only if it
\* consists solely of ASCII digits 0-9 and is 3 to 12 long; every other input
\* yields None.
C9_AsciiDigitsOnly ==
    (fn = "validate_account" /\ ret # Pending) =>
        ret = IF IsStr(arg) /\ IsAccountNumber(Strip(arg.s))
              THEN Str(Strip(arg.s)) ELSE None

-----------------------------------------------------------------------------
(* Claims about clean_description, checked under SpecDescription *)

\* C10: clean_description always returns a string, no longer than the maximum
\* length and without leading or trailing whitespace, also when the input was
\* cut; null and empty input give the empty string.
C10_TrimmedAndCapped ==
    (fn = "clean_description" /\ ret # Pending) =>
        /\ IsStr(ret)
        /\ Len(ret.s) <= DescriptionLimit
        /\ ret.s # <<>> =>
              (ret.s[1] \notin Whitespace /\ ret.s[Len(ret.s)] \notin Whitespace)
        /\ (arg = None \/ arg = Str(<<>>)) => ret.s = <<>>


-----------------------------------------------------------------------------
(* Claims about a normalizer applied to its own output, checked under
   SpecIdempotent *)

\* C11: each normalizer is idempotent on its own output: when normalize_date,
\* normalize_amount or validate_account returned a value v, the same function
\* applied to v returns v again, and clean_description applied to a result of
\* clean_description returns that result.
C11_Idempotent == applied = 2 => ret = arg


-----------------------------------------------------------------------------
(* Claims about ETLPipeline.load and ETLPipeline.run, checked under SpecRun *)

Logged(message) == \E k \in 1..Len(log) : log[k] = message

\* the place of a message in the log, 0 when it was not logged
LogIndex(message) ==
    IF Logged(message) THEN CHOOSE k \in 1..Len(log) : log[k] = message ELSE 0

\* the tree has one Journal root with one Entry per returned record, in order;
\* each Entry has Date, Account and Amount children with the record's values,
\* followed by a Description child exactly when the description is not empty
DocumentMatchesRecords ==
    /\ document.tag = "Journal"
    /\ Len(document.children) = Len(transformed)
    /\ \A k \in 1..Len(transformed) :
          LET entry == document.children[k]
              record == transformed[k]
          IN  /\ entry.tag = "Entry"
              /\ Len(entry.children) = IF record.Description.s = <<>> THEN 3 ELSE 4
              /\ entry.children[1] = [tag |-> "Date", text |-> record.Date.s]
              /\ entry.children[2] = [tag |-> "Account", text |-> record.Account.s]
              /\ entry.children[3] = [tag |-> "Amount", text |-> record.Amount.s]
              /\ record.Description.s # <<>> =>
                    entry.children[4] =
                        [tag |-> "Description", text |-> record.Description.s]

\* C12: the document load builds has one root with exactly one Entry per record
\* of the transform result, in the same order, each with Date, Account and
\* Amount children carrying the record's values and a Description child if and
\* only if the description is non-empty; from zero source rows the root has
\* zero children and the counters are total = valid = skipped = 0.
C12_DocumentOfLoad ==
    document # NoDocument =>
        /\ DocumentMatchesRecords
        /\ raw_data = <<>> =>
              /\ document.children = <<>>
              /\ total_records = 0
              /\ valid_records = 0
              /\ skipped_records = 0

StageStartMessages ==
    <<"Connecting to database", "Starting data transformation", "Generating XML output">>

IsStageStart(message) ==
    \E k \in 1..Len(StageStartMessages) : StageStartMessages[k] = message

\* the stages begun so far are extract, transform, load in this order, none
\* twice, and a stage begins only after the one before it reported its end
StagesInOrder ==
    /\ LET started == SelectSeq(log, IsStageStart)
       IN  /\ Len(started) <= Len(StageStartMessages)
           /\ started = SubSeq(StageStartMessages, 1, Len(started))
    /\ Logged("Starting data transformation") =>
          /\ Logged("Extracted records")
          /\ LogIndex("Extracted records") < LogIndex("Starting data transformation")
    /\ Logged("Generating XML output") =>
          /\ Logged("Transformation complete")
          /\ LogIndex("Transformation complete") < LogIndex("Generating XML output")

\* a run whose extract found no readable database ended with that error before
\* transform or load began and without writing
ExtractFailureIsFatal ==
    (database = Unavailable /\ pc \notin {"idle", "extract"}) =>
        /\ pc = "failed"
        /\ error = "sqlite3.Error"
        /\ ~Logged("Starting data transformation")
        /\ ~Logged("Generating XML output")
        /\ ~Logged("XML file written")
        /\ calls = 0 =>
              /\ total_records = 0
              /\ valid_records = 0
              /\ skipped_records = 0
              /\ output_file = Absent

\* C13: run executes extract, transform, load strictly in this order, each
\* starting only after the previous one completed; when extract fails with a
\* source-access error the error leaves run, transform and load are not
\* executed, nothing is written and the counters keep their values.
C13_StagesInOrder ==
    /\ [](StagesInOrder /\ ExtractFailureIsFatal)
    /\ [][(pc = "extract" /\ database = Unavailable) =>
              UNCHANGED <<total_records, valid_records, skipped_records, calls,
                          output_file>>]_vars

\* C13 witness: a run that failed in extract on a pipeline whose earlier run
\* had written its output.
C13_Witness ==
    /\ pc = "failed"
    /\ error = "sqlite3.Error"
    /\ output_file \notin {Absent, Truncated}
    /\ calls > 0

ValidationFailures == {"XMLSyntaxError", "XMLSchemaParseError", "DocumentInvalid"}

\* load has passed the validation block, entering it or not
PastValidation ==
    \/ pc \in {"write", "done"}
    \/ (pc = "failed" /\ error \in ValidationFailures \cup {"IOError"})

\* C14: load validates exactly when output.validate_xml is true and a schema
\* path is configured and the schema file exists; the output file is written
\* only if validation was not performed or succeeded; a validation failure
\* leaves load before any write, so the file at output_path is not touched;
\* without validation (no schema, or validate_xml false) load goes on to write.
C14_ValidationGatesWrite ==
    /\ [](/\ PastValidation =>
                (Logged("Validating XML against schema")
                   <=> (validate_xml /\ schema_path # None /\ schema_exists))
          /\ Logged("XML file written") =>
                \/ ~Logged("Validating XML against schema")
                \/ Logged("XML validation successful")
          /\ error \in ValidationFailures =>
                /\ pc = "failed"
                /\ Logged("Validating XML against schema")
                /\ ~Logged("XML validation successful")
                /\ ~Logged("XML file written")
          /\ (PastValidation /\ ~(validate_xml /\ schema_path # None /\ schema_exists)) =>
                error \notin ValidationFailures)
    /\ [][(pc = "validate" /\ pc' = "failed") => output_file' = output_file]_vars
    /\ [][(pc = "validate" /\ ~(validate_xml /\ schema_path # None /\ schema_exists)) =>
              pc' = "write"]_vars

\* C14 witness: a run with validation enabled and the schema present whose
\* document was rejected, on a pipeline whose earlier run had written its output.
C14_Witness ==
    /\ pc = "failed"
    /\ error = "DocumentInvalid"
    /\ validate_xml
    /\ schema_exists
    /\ output_file \notin {Absent, Truncated}

-----------------------------------------------------------------------------
(* Further claims about ETLPipeline.transform, checked under Spec *)

\* the whitespace-trimmed raw description cut to its first maxlen characters
TrimThenCap(desc, maxlen) ==
    IF ~Truthy(desc) THEN Str(<<>>)
    ELSE Str(Slice(Strip(PyStr(desc)), 0, maxlen))

\* C15: for every accepted record and every max_description_length M the
\* Description of the canonical record is the trimmed raw description cut to
\* its first M characters; a description of trimmed length at most M is kept
\* in full.
C15_TrimThenCap ==
    calls > 0 =>
        \A k \in 1..Len(transformed) :
            transformed[k].Description =
                TrimThenCap(Get(raw_data[KthAccepted(k)], "Description", None),
                            max_description_length)

\* the records transform returns for raw when the two counters stand at valid
\* and skipped
RecordsOf(raw, valid, skipped) ==
    TransformLoop(raw, 1, max_description_length, strftime_pads,
                  [out |-> <<>>, valid |-> valid, skipped |-> skipped]).out

CounterValues == 0..(MaxRecords * MaxCalls)

\* C16: records are processed independently: for every split of the input into
\* A followed by B, the records returned for the whole input are the records
\* of transform(A) followed by those of transform(B), whatever the counters
\* were at either call.
C16_Independent ==
    calls > 0 =>
        \A k \in 0..Len(raw_data) :
            \A v \in CounterValues, s \in CounterValues :
                transformed =
                    RecordsOf(SubSeq(raw_data, 1, k), v, s)
                    \o RecordsOf(SubSeq(raw_data, k + 1, Len(raw_data)), s, v)

\* C16 witness: a later call on the same object that was given the same record
\* twice and returned it twice.
C16_Witness ==
    /\ calls > 1
    /\ valid_records > Len(transformed)
    /\ Len(raw_data) = 2
    /\ raw_data[1] = raw_data[2]
    /\ Len(transformed) = 2

=============================================================================
